---------------------------- MODULE Spec2Model ----------------------------
(***************************************************************************)
(* SmartOCR backend: the layout-reconstruction pipeline of                 *)
(* app/docx_service.py (OCR word records -> lines -> classified,           *)
(* measured paragraphs -> document), the text builder of                   *)
(* app/docx_text_service.py, and the endpoints of app/main.py that drive   *)
(* them, with the upload handling of those endpoints and the language     *)
(* handed to the OCR engine (app/ocr_service.py for /ocr).                 *)
(*                                                                         *)
(* Representation.                                                         *)
(*  - A string is a sequence of characters; a character is a one-character *)
(*    TLA+ string.  The non-ASCII bullet glyphs are written as the tokens  *)
(*    "BULLET" (U+2022), "MIDDOT" (U+00B7), "CIRCLE" (U+25CB),             *)
(*    "SQUARE" (U+25A0) and "ARROW" (U+25BA).                              *)
(*  - height_ratio is the exact fraction <<height, median_height>>         *)
(*    (<<1, 1>> when the median is 0); ratio >= 1.5 is 2*num >= 3*den.     *)
(*  - Lengths are integers in the finest unit that the code can produce:   *)
(*    space_before in fifths of a point (gap / 5 pt), left_indent in       *)
(*    1/200 inch (indent_px / 200 in), font sizes in hundredths of a point *)
(*    (height * 72 / 300 pt = 24 * height / 100 pt).                       *)
(*  - Unset (-1) stands for Python's None / a property never assigned.     *)
(***************************************************************************)
EXTENDS Integers, Sequences, FiniteSets

VARIABLES
    endpoint,   \* which endpoint of main.py received the request
    images,     \* number of files uploaded with the request
    lang,       \* the lang form field of the request
    paths,      \* the upload paths saved so far (`saved`), handed to the builder
    uploads,    \* the files of this request that exist in UPLOAD_DIR
    text_in,    \* the text form field of /build-docx
    pc,         \* position of the request handler
    i,          \* number of pages the loop of build_docx_bytes_from_images has started
    first,      \* the loop's `first` flag
    doc,        \* the Document under construction: its paragraphs, in order
    prev_line,  \* the builder's prev_line local
    ocr,        \* what pytesseract.image_to_data returned for each page so far
    engine_lang, \* the lang argument of every call of the OCR engine so far
    response    \* the HTTP response of the endpoint

vars == <<endpoint, images, lang, paths, uploads, text_in, pc, i, first, doc,
          prev_line, ocr, engine_lang, response>>

----------------------------------------------------------------------------
(* Bounds of the model *)

\* most word records on a freely enumerated page
MaxWords == 2
\* most pages in one /images-to-docx request
MaxPages == 3
\* most lines in the text of one /build-docx request
MaxTextLines == 2

----------------------------------------------------------------------------
(* Program constants *)

MIN_FONT_SIZE == 9
MAX_FONT_SIZE == 28
\* _px_to_pt's default dpi
DPI == 300
\* _is_heading_text: longest text that can be a heading
HeadingMaxLen == 100
\* _is_heading_text: longest text the capital-letter rule applies to
CapsMaxLen == 60
\* median_height when the page has no line
DefaultMedian == 16
\* left_indent = min(1.5, indent_px / 200.0): the cap, in 1/200 inch
MaxIndent == 300
\* space_pt = min(12, max(3, gap / 5)): the clamp, in fifths of a point
MinSpace == 15
MaxSpace == 60
Unset == -1

----------------------------------------------------------------------------
(* Characters and strings *)

UpperChars ==
    {"A","B","C","D","E","F","G","H","I","J","K","L","M",
     "N","O","P","Q","R","S","T","U","V","W","X","Y","Z"}

DigitChars == {"0","1","2","3","4","5","6","7","8","9"}

Whitespace == {" ", "\t", "\n", "\r"}

\* docx_service._is_bullet_or_numbered: text.startswith((...))
BulletGlyphs == {"BULLET", "-", "MIDDOT", "*", "CIRCLE", "SQUARE", "ARROW"}

\* docx_service._add_formatted_paragraph: text.lstrip("...- ") character set
BulletStripChars == BulletGlyphs \cup {" "}

\* docx_text_service._is_bullet: startswith(("-", ".", ...)) glyph set
TextBulletGlyphs == {"-", "BULLET", "MIDDOT", "*"}

ListTerminators == {".", ")", " "}

Min(a, b) == IF a <= b THEN a ELSE b

Max(a, b) == IF a >= b THEN a ELSE b

RECURSIVE LStripChars(_, _)
LStripChars(s, cs) ==
    IF s = <<>> \/ Head(s) \notin cs THEN s ELSE LStripChars(Tail(s), cs)

RECURSIVE RStripChars(_, _)
RStripChars(s, cs) ==
    IF s = <<>> \/ s[Len(s)] \notin cs THEN s
    ELSE RStripChars(SubSeq(s, 1, Len(s) - 1), cs)

\* str.strip()
Strip(s) == RStripChars(LStripChars(s, Whitespace), Whitespace)

\* str.rstrip()
RStrip(s) == RStripChars(s, Whitespace)

\* sum(1 for c in text if c.isupper())
UpperCount(s) == Cardinality({k \in 1..Len(s) : s[k] \in UpperChars})

\* "".join(parts)
RECURSIVE Join(_)
Join(parts) == IF parts = <<>> THEN <<>> ELSE Head(parts) \o Join(Tail(parts))

\* text.split("\n")
RECURSIVE SplitLines(_)
SplitLines(s) ==
    IF \A k \in 1..Len(s) : s[k] # "\n" THEN <<s>>
    ELSE LET k == CHOOSE k \in 1..Len(s) :
                    s[k] = "\n" /\ \A j \in 1..(k - 1) : s[j] # "\n"
         IN <<SubSeq(s, 1, k - 1)>> \o SplitLines(SubSeq(s, k + 1, Len(s)))

\* text.replace("\r\n", "\n")
RECURSIVE ReplaceCRLF(_)
ReplaceCRLF(s) ==
    IF Len(s) = 0 THEN <<>>
    ELSE IF Len(s) >= 2 /\ s[1] = "\r" /\ s[2] = "\n"
         THEN <<"\n">> \o ReplaceCRLF(SubSeq(s, 3, Len(s)))
         ELSE <<s[1]>> \o ReplaceCRLF(Tail(s))

----------------------------------------------------------------------------
(* Font and style utilities (docx_service.py) *)

\* height_ratio >= 1.5 on the exact fraction
RatioAtLeastOneAndHalf(r) == 2 * r[1] >= 3 * r[2]

\* _px_to_pt, in hundredths of a point: px / 300 * 72 = 0.24 * px
_px_to_pt(px) ==
    Max(MIN_FONT_SIZE * 100, Min(MAX_FONT_SIZE * 100, (px * 72 * 100) \div DPI))

\* the body of _is_heading_text after text = text.strip()
heading_caps_only(t, height_ratio) ==
    IF t = <<>> \/ Len(t) > HeadingMaxLen THEN FALSE
    ELSE Len(t) <= CapsMaxLen /\ UpperCount(t) >= Max(3, (Len(t) * 3) \div 10)

heading_of_stripped(t, height_ratio) ==
    IF t = <<>> \/ Len(t) > HeadingMaxLen THEN FALSE
    ELSE IF RatioAtLeastOneAndHalf(height_ratio) THEN TRUE
    ELSE IF Len(t) <= CapsMaxLen
            /\ UpperCount(t) >= Max(3, (Len(t) * 3) \div 10) THEN TRUE
    ELSE FALSE

_is_heading_text(text, height_ratio) ==
    heading_of_stripped(Strip(text), height_ratio)

\* the body of _is_bullet_or_numbered after text = text.strip();
\* returns <<is_list, list_type>>
list_one_digit(t) ==
    IF t # <<>> /\ t[1] \in BulletGlyphs THEN <<TRUE, "bullet">>
    ELSE IF Len(t) >= 2 /\ t[1] \in DigitChars /\ t[2] \in ListTerminators
         THEN <<TRUE, "number">>
    ELSE <<FALSE, "">>

list_of_stripped(t) ==
    IF t # <<>> /\ t[1] \in BulletGlyphs THEN <<TRUE, "bullet">>
    ELSE IF Len(t) >= 2 /\ t[1] \in DigitChars
            /\ ( t[2] \in ListTerminators
                 \/ (Len(t) >= 3 /\ t[2] \in DigitChars
                     /\ t[3] \in ListTerminators) )
         THEN <<TRUE, "number">>
    ELSE <<FALSE, "">>

_is_bullet_or_numbered(text) == list_of_stripped(Strip(text))

----------------------------------------------------------------------------
(* _extract_lines_with_format (docx_service.py) *)

\* One record of pytesseract.image_to_data: text, conf, the bounding box and
\* the hierarchy key (block_num, par_num, line_num), here one value per triple.
WordRecord(text, conf, left, top, width, height, key) ==
    [text |-> text, conf |-> conf, left |-> left, top |-> top,
     width |-> width, height |-> height, key |-> key]

\* a line dict; None is the same shape with every number Unset
LineRecord(text, left, top, height, width, median_height, height_ratio) ==
    [text |-> text, left |-> left, top |-> top, height |-> height,
     width |-> width, median_height |-> median_height,
     height_ratio |-> height_ratio]

None == LineRecord(<<>>, Unset, Unset, Unset, Unset, Unset, <<Unset, Unset>>)

SetMin(S) == CHOOSE x \in S : \A y \in S : x <= y

SetMax(S) == CHOOSE x \in S : \A y \in S : x >= y

\* the word loop's filter: txt = (txt or "").strip(); skip if not txt or conf < 0
Recognized(data) ==
    SelectSeq([k \in 1..Len(data) |->
                  [data[k] EXCEPT !.text = Strip(data[k].text)]],
              LAMBDA w : w.text # <<>> /\ w.conf >= 0)

\* the keys of lines_dict in insertion order (first appearance)
RECURSIVE KeyOrder(_, _)
KeyOrder(ws, seen) ==
    IF ws = <<>> THEN <<>>
    ELSE IF Head(ws).key \in seen THEN KeyOrder(Tail(ws), seen)
    ELSE <<Head(ws).key>> \o KeyOrder(Tail(ws), seen \cup {Head(ws).key})

\* one value of lines_dict: the words of a key and their union box
line_data_of(words) ==
    [words  |-> words,
     left   |-> SetMin({words[j].left : j \in 1..Len(words)}),
     top    |-> SetMin({words[j].top : j \in 1..Len(words)}),
     height |-> SetMax({words[j].height : j \in 1..Len(words)}),
     width  |-> 0]

\* the values of lines_dict for the kept words ws, in the order of keys
lines_dict_values(ws, keys) ==
    [k \in 1..Len(keys) |->
        line_data_of(SelectSeq(ws, LAMBDA w : w.key = keys[k]))]

lines_dict_of(ws) == lines_dict_values(ws, KeyOrder(ws, {}))

\* lines_dict, as the sequence of its values in insertion order
lines_dict(data) == lines_dict_of(Recognized(data))

\* x placed after the n leading elements of the sorted sequence rest
InsertAt(rest, x, n) ==
    SubSeq(rest, 1, n) \o <<x>> \o SubSeq(rest, n + 1, Len(rest))

\* sorted(line_data["words"], key=lambda w: w["left"]): stable
insert_word(rest, x) ==
    InsertAt(rest, x,
             Cardinality({k \in 1..Len(rest) : rest[k].left <= x.left}))

RECURSIVE sorted_words(_)
sorted_words(ws) ==
    IF ws = <<>> THEN <<>>
    ELSE insert_word(sorted_words(SubSeq(ws, 1, Len(ws) - 1)), ws[Len(ws)])

\* the separator emitted before word w, whose predecessor is prevw:
\* gap = left - prev_right; "  " if gap > height * 1.2 else " "
SeparatorSingle(prevw, w, height) == <<" ">>

Separator(prevw, w, height) ==
    IF 5 * (w.left - (prevw.left + prevw.width)) > 6 * height
    THEN <<" ", " ">> ELSE <<" ">>

\* "".join(text_parts).strip() for the words sorted by left
assemble_text(words, height) ==
    Strip(Join([k \in 1..Len(words) |->
                  IF k = 1 THEN words[k].text
                  ELSE Separator(words[k - 1], words[k], height)
                       \o words[k].text]))

\* sorted(all_heights)
insert_int(rest, x) ==
    InsertAt(rest, x, Cardinality({k \in 1..Len(rest) : rest[k] <= x}))

RECURSIVE sorted_ints(_)
sorted_ints(hs) ==
    IF hs = <<>> THEN <<>>
    ELSE insert_int(sorted_ints(SubSeq(hs, 1, Len(hs) - 1)), hs[Len(hs)])

\* sorted(all_heights)[len(all_heights) // 2] if all_heights else 16
median_of(all_heights) ==
    IF all_heights = <<>> THEN DefaultMedian
    ELSE sorted_ints(all_heights)[(Len(all_heights) \div 2) + 1]

\* line["height"] / median_height if median_height > 0 else 1.0
height_ratio_of(height, median_height) ==
    IF median_height > 0 THEN <<height, median_height>> ELSE <<1, 1>>

\* the sort key of lines.sort(key=lambda x: (x["top"], x["left"])): a <= b
LineKeyLETopOnly(a, b) == a.top <= b.top

LineKeyLE(a, b) == a.top < b.top \/ (a.top = b.top /\ a.left <= b.left)

\* lines.sort(...): stable
insert_line(rest, x) ==
    InsertAt(rest, x, Cardinality({k \in 1..Len(rest) : LineKeyLE(rest[k], x)}))

RECURSIVE sorted_lines(_)
sorted_lines(ls) ==
    IF ls = <<>> THEN <<>>
    ELSE insert_line(sorted_lines(SubSeq(ls, 1, Len(ls) - 1)), ls[Len(ls)])

\* "width": prev_right - line_data["left"] if prev_right else 0
line_width(prev_right, left) == IF prev_right # 0 THEN prev_right - left ELSE 0

\* the line built from one value of lines_dict and its words sorted by left
assembled_line(line_data, words) ==
    LineRecord(assemble_text(words, line_data.height),
               line_data.left, line_data.top, line_data.height,
               line_width(words[Len(words)].left + words[Len(words)].width,
                          line_data.left),
               Unset, <<Unset, Unset>>)

\* the lines appended by the loop over lines_dict: only if text
assembled_from(ld) ==
    SelectSeq([k \in 1..Len(ld) |-> assembled_line(ld[k], sorted_words(ld[k].words))],
              LAMBDA l : l.text # <<>>)

assembled_lines(data) == assembled_from(lines_dict(data))

\* the metadata pass: median_height and height_ratio on every line
with_metadata(lines, median_height) ==
    [k \in 1..Len(lines) |->
        [lines[k] EXCEPT
           !.median_height = median_height,
           !.height_ratio  = height_ratio_of(lines[k].height, median_height)]]

\* the tail of _extract_lines_with_format: median, metadata, sort
finished_lines(lines) ==
    sorted_lines(with_metadata(lines,
                     median_of([k \in 1..Len(lines) |-> lines[k].height])))

_extract_lines_with_format(data) == finished_lines(assembled_lines(data))

----------------------------------------------------------------------------
(* The document model and _add_formatted_paragraph (docx_service.py) *)

\* One paragraph of the Document.  brk: the paragraph doc.add_page_break()
\* adds.  line: the line dict (or source text) the paragraph was built for.
Paragraph(style, text, space_before, left_indent, bold, size, line) ==
    [brk |-> FALSE, style |-> style, text |-> text,
     space_before |-> space_before, left_indent |-> left_indent,
     bold |-> bold, size |-> size, line |-> line]

\* doc.add_page_break()
PageBreak ==
    [Paragraph("", <<>>, Unset, Unset, FALSE, Unset, None) EXCEPT !.brk = TRUE]

\* str(n) for the page numbers of the model
PageNumberText(n) == <<"0","1","2","3","4","5","6","7","8","9">>[n + 1]

\* doc.add_paragraph("(OCR natijasi bo'sh)")
EmptyResultParagraph ==
    Paragraph("", <<"(OCR natijasi bo'sh)">>, Unset, Unset, FALSE, Unset, None)

\* doc.add_paragraph(f"(Sahifa {n}: OCR natijasi bo'sh)")
EmptyPageParagraph(n) ==
    Paragraph("", <<"(Sahifa ", PageNumberText(n), ": OCR natijasi bo'sh)">>,
              Unset, Unset, FALSE, Unset, None)

\* the paragraph style chosen from the two classifications
ParagraphStyleHeadingFirst(is_list, list_type, is_heading, height_ratio) ==
    IF is_heading
    THEN (IF RatioAtLeastOneAndHalf(height_ratio) THEN "Heading 2" ELSE "Heading 3")
    ELSE IF is_list
    THEN (IF list_type = "bullet" THEN "List Bullet" ELSE "List Number")
    ELSE ""

ParagraphStyle(is_list, list_type, is_heading, height_ratio) ==
    IF is_list
    THEN (IF list_type = "bullet" THEN "List Bullet" ELSE "List Number")
    ELSE IF is_heading
    THEN (IF RatioAtLeastOneAndHalf(height_ratio) THEN "Heading 2" ELSE "Heading 3")
    ELSE ""

\* space_pt = min(12, max(3, gap / 5)), in fifths of a point
SpaceForGapUnclamped(gap) == gap

SpaceForGap(gap) == Min(MaxSpace, Max(MinSpace, gap))

\* the space_before of a line after prev_line: set only if gap > median_h * 0.8
SpaceBefore(line, prev) ==
    IF prev = None THEN Unset
    ELSE IF 5 * (line.top - (prev.top + prev.height)) > 4 * line.median_height
    THEN SpaceForGap(line.top - (prev.top + prev.height))
    ELSE Unset

\* text = "BULLET " + text.lstrip("...").strip() for a bullet item
run_text_of(text, is_list, list_type) ==
    IF is_list /\ list_type = "bullet"
    THEN <<"BULLET", " ">> \o Strip(LStripChars(text, BulletStripChars))
    ELSE text

\* left_indent = min(1.5, max(0, left - min_left) / 200.0); applied if > 0
\* and the paragraph is no list item
left_indent_of_any_style(indent, is_list) ==
    IF indent > 0 THEN indent ELSE Unset

left_indent_of(indent, is_list) ==
    IF indent > 0 /\ ~is_list THEN indent ELSE Unset

\* run.font.size, from font_size = _px_to_pt(height)
run_size_without_boost(font_size, is_heading) ==
    Min(1400, Max(1000, font_size))

run_size_of(font_size, is_heading) ==
    IF is_heading THEN Min(1800, Max(1200, font_size + 200))
    ELSE Min(1400, Max(1000, font_size))

\* the paragraph built once text, is_heading and (is_list, list_type) are known
formatted_paragraph(text, line, min_left, prev, is_heading, lst) ==
    Paragraph(ParagraphStyle(lst[1], lst[2], is_heading, line.height_ratio),
              run_text_of(text, lst[1], lst[2]),
              SpaceBefore(line, prev),
              left_indent_of(Min(MaxIndent, Max(0, line.left - min_left)), lst[1]),
              is_heading,
              run_size_of(_px_to_pt(line.height), is_heading),
              line)

\* _add_formatted_paragraph after text = line["text"].strip()
add_stripped(d, text, line, min_left, prev) ==
    IF text = <<>> THEN d
    ELSE Append(d, formatted_paragraph(text, line, min_left, prev,
                                       _is_heading_text(text, line.height_ratio),
                                       _is_bullet_or_numbered(text)))

\* the document after _add_formatted_paragraph(doc, line, min_left, prev_line)
_add_formatted_paragraph(d, line, min_left, prev) ==
    add_stripped(d, Strip(line.text), line, min_left, prev)

\* for line in lines: _add_formatted_paragraph(...); prev_line = line
RECURSIVE emit_lines(_, _, _, _)
emit_lines(d, lines, min_left, prev) ==
    IF lines = <<>> THEN d
    ELSE emit_lines(_add_formatted_paragraph(d, Head(lines), min_left, prev),
                    Tail(lines), min_left, Head(lines))

\* min_left = min(l["left"] for l in lines)
min_left_of(lines) == SetMin({lines[k].left : k \in 1..Len(lines)})

\* prev_line = None before a page's lines; prev is the value the local held
PagePrevLineKept(prev) == prev

PagePrevLine(prev) == None

\* the body of one page: placeholder, or the page's paragraphs
emit_page_skip_empty(d, lines, placeholder, prev) ==
    IF lines = <<>> THEN d
    ELSE emit_lines(d, lines, min_left_of(lines), PagePrevLine(prev))

emit_page(d, lines, placeholder, prev) ==
    IF lines = <<>> THEN Append(d, placeholder)
    ELSE emit_lines(d, lines, min_left_of(lines), PagePrevLine(prev))

\* prev_line after a page: unchanged by the placeholder branch
prev_after(lines, prev) ==
    IF lines = <<>> THEN prev ELSE lines[Len(lines)]

\* paths.index(path) + 1
IndexOf(seq, x) == SetMin({k \in 1..Len(seq) : seq[k] = x})

----------------------------------------------------------------------------
(* Builders of docx_service.py *)

\* the paragraphs build_docx_bytes_from_image saves for one OCR result
\* build_docx_bytes_from_image after lines = _extract_lines_with_format(...)
image_document(lines) ==
    IF lines = <<>> THEN <<EmptyResultParagraph>>
    ELSE emit_lines(<<>>, lines, min_left_of(lines), None)

build_docx_bytes_from_image(data) ==
    image_document(_extract_lines_with_format(data))

\* if not first: doc.add_page_break()
with_page_break_always(d, is_first) == Append(d, PageBreak)

with_page_break(d, is_first) == IF is_first THEN d ELSE Append(d, PageBreak)

\* the document after one iteration of build_docx_bytes_from_images' loop
\* over paths[n], whose lines are `lines`
images_iteration(d, is_first, path_list, n, lines, prev) ==
    emit_page(with_page_break(d, is_first), lines,
              EmptyPageParagraph(IndexOf(path_list, path_list[n])), prev)

----------------------------------------------------------------------------
(* docx_text_service.py *)

\* _is_heading, _is_numbered, _is_bullet after s = line.strip()
text_heading_stripped(s) ==
    IF s = <<>> THEN FALSE
    ELSE Len(s) <= CapsMaxLen /\ UpperCount(s) >= Max(3, Len(s) \div 4)

text_numbered_stripped(s) ==
    IF s = <<>> THEN FALSE
    ELSE s[1] \in DigitChars
         /\ ( (Len(s) >= 2 /\ s[2] \in ListTerminators)
              \/ (Len(s) >= 3 /\ s[2] \in DigitChars
                  /\ s[3] \in ListTerminators) )

text_bullet_stripped(s) == s # <<>> /\ s[1] \in TextBulletGlyphs

text_is_heading(line) == text_heading_stripped(Strip(line))

text_is_numbered(line) == text_numbered_stripped(Strip(line))

text_is_bullet(line) == text_bullet_stripped(Strip(line))

\* doc.add_paragraph("") for a run of blank lines
BlankParagraph == Paragraph("", <<>>, Unset, Unset, FALSE, Unset, None)

\* the paragraph of one non-blank line s: style, then the run (size in 1/100 pt)
\* the paragraph style of the if/elif chain: numbered, bullet, heading, body
text_style(is_numbered, is_bullet, is_heading) ==
    IF is_numbered THEN "List Number"
    ELSE IF is_bullet THEN "List Bullet"
    ELSE ""

\* the run of a line: _apply_font(run, size=14, bold=True) or size=12
text_run(style, s, is_heading) ==
    Paragraph(style, s, Unset, Unset, is_heading,
              IF is_heading THEN 1400 ELSE 1200,
              LineRecord(s, Unset, Unset, Unset, Unset, Unset, <<Unset, Unset>>))

text_paragraph(s) ==
    text_run(text_style(text_is_numbered(s), text_is_bullet(s), text_is_heading(s)),
             s, text_is_heading(s))

\* if blank: doc.add_paragraph("")
with_blank(d, blank) == IF blank THEN Append(d, BlankParagraph) ELSE d

\* the loop over the split lines, with its `blank` flag
RECURSIVE text_lines_loop(_, _, _)
text_lines_loop(d, lines, blank) ==
    IF lines = <<>> THEN d
    ELSE IF Strip(RStrip(Head(lines))) = <<>>
    THEN text_lines_loop(d, Tail(lines), TRUE)
    ELSE text_lines_loop(Append(with_blank(d, blank),
                                text_paragraph(Strip(RStrip(Head(lines))))),
                         Tail(lines), FALSE)

\* build_docx_bytes_from_text after replace("\r\n", "\n").strip("\n")
text_document(t) ==
    IF Strip(t) = <<>> THEN <<>>
    ELSE text_lines_loop(<<>>, SplitLines(t), FALSE)

build_docx_bytes_from_text(text) ==
    text_document(RStripChars(LStripChars(ReplaceCRLF(text), {"\n"}), {"\n"}))

----------------------------------------------------------------------------
(* ocr_service.py *)

AUTO_LANGS == "eng+rus+uzb+uzb_cyrl"

\* str.lower() on the lang values of the model
lower(l) == IF l = "AUTO" THEN "auto" ELSE l

\* the lang run_ocr hands to pytesseract.image_to_string
run_ocr_lang(l) == IF l = "" \/ lower(l) = "auto" THEN AUTO_LANGS ELSE l

\* the lang _extract_lines_with_format hands to pytesseract.image_to_data
extract_lang(l) == l

\* .replace("\r", "\n")
ReplaceCR(s) == [k \in 1..Len(s) |-> IF s[k] = "\r" THEN "\n" ELSE s[k]]

\* re.sub(r"[ \t]+", " ", t)
RECURSIVE CollapseBlanks(_)
CollapseBlanks(s) ==
    IF s = <<>> THEN <<>>
    ELSE IF Head(s) \in {" ", "\t"}
    THEN <<" ">> \o CollapseBlanks(LStripChars(s, {" ", "\t"}))
    ELSE <<Head(s)>> \o CollapseBlanks(Tail(s))

\* the length of the run of newlines s starts with
NewlineRun(s) == Len(s) - Len(LStripChars(s, {"\n"}))

\* re.sub(r"\n{3,}", "\n\n", t)
RECURSIVE CollapseNewlines(_)
CollapseNewlines(s) ==
    IF s = <<>> THEN <<>>
    ELSE IF Head(s) = "\n"
    THEN SubSeq(s, 1, Min(2, NewlineRun(s)))
         \o CollapseNewlines(LStripChars(s, {"\n"}))
    ELSE <<Head(s)>> \o CollapseNewlines(Tail(s))

_normalize_text(text) ==
    Strip(CollapseNewlines(CollapseBlanks(ReplaceCR(ReplaceCRLF(text)))))

----------------------------------------------------------------------------
(* Inputs of the model: what the OCR engine and the client can send *)

T_ab == <<"a", "b">>
T_Hello == <<"H", "e", "l", "l", "o">>
T_World == <<"W", "o", "r", "l", "d">>
T_Buy == <<"B", "u", "y">>
T_milk == <<"m", "i", "l", "k">>
T_long == [k \in 1..(HeadingMaxLen + 1) |-> "x"]

\* word texts covering every branch of the two classifiers
WordTexts ==
    { T_ab, <<"A", "B", "C">>, <<"1", ")">>, <<"1", ".", "A", "B", "C">>,
      <<"1", "2", ".">>, <<"1">>, <<"1", "a">>, <<"1", "2", "3", ".">>,
      <<"-">>, <<"-", "A", "B", "C">>, <<"BULLET", "a">>, <<"ARROW">>, T_long }

\* words that differ in geometry only
GeoWords ==
    { WordRecord(T_ab, 90, l, t, 30, h, k) :
        l \in {0, 40, 400}, t \in {0, 30}, h \in {10, 20}, k \in {1, 2} }

\* words that differ in text only, and two the filter drops
TextWords ==
    { WordRecord(t, 90, 0, 0, 30, 10, 1) : t \in WordTexts }
    \cup { WordRecord(<<" ">>, 90, 0, 0, 30, 10, 1),
           WordRecord(T_ab, -1, 0, 0, 30, 10, 2) }

Extended(shorter, S) == shorter \cup { Append(q, x) : q \in shorter, x \in S }

RECURSIVE SeqsUpTo(_, _)
SeqsUpTo(S, n) ==
    IF n = 0 THEN {<<>>} ELSE Extended(SeqsUpTo(S, n - 1), S)

\* pages of three lines: two body lines and one line of any text and height
ThreeLinePages ==
    { << WordRecord(T_ab, 90, 0, 0, 30, 10, 1),
         WordRecord(T_ab, 90, 0, t2, 30, h2, 2),
         WordRecord(x, 90, l3, t3, 30, h3, 3) >> :
        t2 \in {0, 30, 50}, h2 \in {10, 20}, x \in WordTexts,
        l3 \in {0, 40}, t3 \in {30, 100, 120}, h3 \in {10, 15, 20} }

\* five lines of heights 10, 10, 10, 10, 100, the tall one first or last
MedianPages ==
    { [k \in 1..5 |->
         WordRecord(IF k = tall THEN x ELSE T_ab, 90, 0, 20 * k, 30,
                    IF k = tall THEN 100 ELSE 10, k)] :
        tall \in {1, 5}, x \in {T_ab, T_long} }

\* "Hello" and "World" on one line, in either record order, and the list lines
PhrasePages ==
    { << WordRecord(T_Hello, 90, 0, 0, 50, 20, 1),
         WordRecord(T_World, 90, 200, 0, 50, 20, 1) >>,
      << WordRecord(T_World, 90, 200, 0, 50, 20, 1),
         WordRecord(T_Hello, 90, 0, 0, 50, 20, 1) >>,
      << WordRecord(T_Hello, 90, 0, 0, 50, 20, 1),
         WordRecord(T_World, 90, 74, 0, 50, 20, 1) >>,
      << WordRecord(T_Hello, 90, 0, 0, 50, 20, 1),
         WordRecord(T_World, 90, 75, 0, 50, 20, 1) >> }
    \cup
    { << WordRecord(m, 90, 0, 0, 20, 10, 1),
         WordRecord(T_milk, 90, 70, 0, 40, 10, 1),
         WordRecord(T_Buy, 90, 30, 0, 30, 10, 1) >> :
        m \in {<<"1", ")">>, <<"BULLET">>, <<"-">>} }
    \cup
    { << WordRecord(T_ab, 90, 0, 0, 30, 0, 1) >> }

\* three lines: one at the page's minimum left, a list item or body line 40
\* pixels to its right, and a line up to 400 pixels to its right
IndentPages ==
    { << WordRecord(T_ab, 90, 10, 0, 30, 10, 1),
         WordRecord(x, 90, 50, 30, 30, 10, 2),
         WordRecord(T_ab, 90, l, 60, 30, 10, 3) >> :
        x \in {<<"-">>, <<"1", ")">>, T_ab}, l \in {10, 309, 310, 311, 410} }

\* two lines, each a body line or an all-caps heading, of heights whose
\* point sizes lie below, inside and above the font-size ranges
FontPages ==
    { << WordRecord(x1, 90, 0, 0, 30, h1, 1),
         WordRecord(x2, 90, 0, 200, 30, h2, 2) >> :
        x1 \in {T_ab, <<"A", "B", "C">>}, x2 \in {T_ab, <<"A", "B", "C">>},
        h1 \in {10, 45, 50, 60, 70, 100, 120},
        h2 \in {10, 45, 50, 60, 70, 100, 120} }

\* OCR results of /image-to-docx
ImagePages ==
    SeqsUpTo(GeoWords \cup TextWords, MaxWords)
    \cup ThreeLinePages \cup MedianPages \cup PhrasePages \cup IndentPages
    \cup FontPages

\* OCR results of the pages of /images-to-docx
W_a == WordRecord(T_ab, 90, 0, 0, 30, 10, 1)
W_b == WordRecord(T_ab, 90, 40, 30, 30, 10, 2)
W_c == WordRecord(<<"-", "A", "B", "C">>, 90, 400, 100, 30, 20, 3)
W_d == WordRecord(<<"A", "B", "C">>, 90, 40, 100, 30, 20, 3)

RunPages ==
    { <<>>,
      << WordRecord(<<" ">>, 90, 0, 0, 30, 10, 1) >>,
      << WordRecord(T_ab, -1, 0, 0, 30, 10, 1) >>,
      << W_a >>, << W_b >>, << W_d >>,
      << W_b, W_a >>, << W_c, W_a >>, << W_a, W_b, W_d >> }

\* OCR results of a request: every result under the endpoints' default
\* lang, a few under the other lang values (the layout does not read lang)
OcrResultsFor(l, all, few) == IF l = "auto" THEN all ELSE few

FewRunPages == { <<>>, << W_a >> }

\* what pytesseract.image_to_string returns for /ocr
OcrTexts ==
    { <<>>, T_ab, <<" ", "a", " ", "\t", "b", "\n">>,
      <<"a", "\r", "\n", "b">>, <<"a", "\r", "b">>,
      <<"a", "\n", "\n", "\n", "\n", "b">>, <<"a", "\n", "\n", "b">> }

\* values of the lang form field; "auto" is the default of the endpoints
Langs == {"auto", "AUTO", "", "eng"}

\* /build-docx has no lang field
NoLang == "none"

\* lines of the text of /build-docx
TextLines ==
    { T_ab, <<"a", "b", "\r">>, <<>>, <<" ">>, <<"A", "B", "C">>,
      <<"1", ".", "A", "B", "C">>, <<"-", "A", "B", "C">>,
      <<"1", ")", " ", "a">>, <<"BULLET", " ", "a">> }

RECURSIVE JoinLines(_)
JoinLines(ls) ==
    IF ls = <<>> THEN <<>>
    ELSE IF Len(ls) = 1 THEN ls[1]
    ELSE ls[1] \o <<"\n">> \o JoinLines(Tail(ls))

TextInputs == { JoinLines(ls) : ls \in SeqsUpTo(TextLines, MaxTextLines) }

----------------------------------------------------------------------------
(* The endpoints of main.py *)

NoResponse == [status |-> 0, content |-> <<>>]

UploadEndpoints == {"/ocr", "/image-to-docx", "/images-to-docx"}

Range(seq) == {seq[k] : k \in 1..Len(seq)}

\* the paths the finally clause unlinks when saving `file` raised: save_path
\* in /ocr and /image-to-docx, the list `saved` in /images-to-docx, which
\* `file` joins only after its copy
tracked_on_fault(ep, saved, file) ==
    IF ep = "/images-to-docx" THEN Range(saved) ELSE {file}

\* the finally clause: unlink every tracked path
unlink_all(files, tracked) == files \ tracked

Init ==
    /\ endpoint \in UploadEndpoints \cup {"/build-docx"}
    /\ images \in 0..MaxPages
    /\ endpoint \in {"/ocr", "/image-to-docx"} => images = 1
    /\ endpoint = "/images-to-docx" => images >= 1
    /\ endpoint = "/build-docx" => images = 0
    /\ lang \in Langs \cup {NoLang}
    /\ lang = NoLang <=> endpoint = "/build-docx"
    /\ text_in \in TextInputs
    /\ endpoint # "/build-docx" => text_in = <<>>
    /\ pc = IF endpoint = "/build-docx" THEN "run" ELSE "save"
    /\ paths = <<>>
    /\ uploads = {}
    /\ i = 0
    /\ first = TRUE
    /\ doc = <<>>
    /\ prev_line = None
    /\ ocr = <<>>
    /\ engine_lang = <<>>
    /\ response = NoResponse

\* one upload is saved: save_path.open("wb") creates the file, copyfileobj
\* fills it, and /images-to-docx appends the path to `saved`
SaveUpload ==
    /\ endpoint \in UploadEndpoints /\ pc = "save" /\ Len(paths) < images
    /\ uploads' = uploads \cup {Len(paths) + 1}
    /\ paths' = Append(paths, Len(paths) + 1)
    /\ pc' = IF Len(paths) + 1 = images THEN "run" ELSE "save"
    /\ UNCHANGED <<endpoint, images, lang, text_in, i, first, doc, prev_line,
                   ocr, engine_lang, response>>

\* saving an upload raises: in open (no file created) or in copyfileobj (the
\* file exists); the except clause answers 500 and the finally clause runs
SaveUploadFault ==
    /\ endpoint \in UploadEndpoints /\ pc = "save" /\ Len(paths) < images
    /\ \E created \in BOOLEAN :
         uploads' = unlink_all(
                      uploads \cup (IF created THEN {Len(paths) + 1} ELSE {}),
                      tracked_on_fault(endpoint, paths, Len(paths) + 1))
    /\ response' = [status |-> 500, content |-> <<>>]
    /\ pc' = "done"
    /\ UNCHANGED <<endpoint, images, lang, paths, text_in, i, first, doc,
                   prev_line, ocr, engine_lang>>

\* POST /ocr: run_ocr returns the normalized text of image_to_string
OcrEndpoint ==
    /\ endpoint = "/ocr" /\ pc = "run"
    /\ engine_lang' = Append(engine_lang, run_ocr_lang(lang))
    /\ \E text \in OcrTexts :
         response' = [status |-> 200, content |-> _normalize_text(text)]
    /\ uploads' = unlink_all(uploads, Range(paths))
    /\ pc' = "done"
    /\ UNCHANGED <<endpoint, images, lang, paths, text_in, i, first, doc,
                   prev_line, ocr>>

\* POST /ocr: run_ocr raises, before or in the call of the engine
OcrEndpointFault ==
    /\ endpoint = "/ocr" /\ pc = "run"
    /\ \E invoked \in BOOLEAN :
         engine_lang' = IF invoked
                        THEN Append(engine_lang, run_ocr_lang(lang))
                        ELSE engine_lang
    /\ response' = [status |-> 500, content |-> <<>>]
    /\ uploads' = unlink_all(uploads, Range(paths))
    /\ pc' = "done"
    /\ UNCHANGED <<endpoint, images, lang, paths, text_in, i, first, doc,
                   prev_line, ocr>>

\* POST /image-to-docx, OCR succeeds: build_docx_bytes_from_image returns
ImageBuilt(data, lines) ==
    /\ doc' = image_document(lines)
    /\ ocr' = <<data>>
    /\ prev_line' = prev_after(lines, None)

ImageToDocx ==
    /\ endpoint = "/image-to-docx" /\ pc = "run"
    /\ engine_lang' = Append(engine_lang, extract_lang(lang))
    /\ \E data \in OcrResultsFor(lang, ImagePages, PhrasePages) :
         ImageBuilt(data, _extract_lines_with_format(data))
    /\ response' = [status |-> 200, content |-> doc']
    /\ uploads' = unlink_all(uploads, Range(paths))
    /\ pc' = "done"
    /\ UNCHANGED <<endpoint, images, lang, paths, text_in, i, first>>

\* POST /image-to-docx, opening the image or the OCR raises: the except clause
ImageToDocxFault ==
    /\ endpoint = "/image-to-docx" /\ pc = "run"
    /\ \E invoked \in BOOLEAN :
         engine_lang' = IF invoked
                        THEN Append(engine_lang, extract_lang(lang))
                        ELSE engine_lang
    /\ response' = [status |-> 500, content |-> <<>>]
    /\ uploads' = unlink_all(uploads, Range(paths))
    /\ pc' = "done"
    /\ UNCHANGED <<endpoint, images, lang, paths, text_in, i, first, doc,
                   prev_line, ocr>>

\* POST /images-to-docx: one iteration of the loop over paths, OCR succeeds
PageBuilt(data, lines) ==
    /\ doc' = images_iteration(doc, first, paths, i + 1, lines, prev_line)
    /\ ocr' = Append(ocr, data)
    /\ prev_line' = prev_after(lines, prev_line)

ImagesPage ==
    /\ endpoint = "/images-to-docx" /\ pc = "run" /\ i < Len(paths)
    /\ engine_lang' = Append(engine_lang, extract_lang(lang))
    /\ \E data \in OcrResultsFor(lang, RunPages, FewRunPages) :
         PageBuilt(data, _extract_lines_with_format(data))
    /\ first' = FALSE
    /\ i' = i + 1
    /\ UNCHANGED <<endpoint, images, lang, paths, uploads, text_in, pc,
                   response>>

\* POST /images-to-docx: opening paths[i+1] or its OCR raises after the page
\* break was added; nothing catches it before the endpoint's except clause
ImagesPageFault ==
    /\ endpoint = "/images-to-docx" /\ pc = "run" /\ i < Len(paths)
    /\ \E invoked \in BOOLEAN :
         engine_lang' = IF invoked
                        THEN Append(engine_lang, extract_lang(lang))
                        ELSE engine_lang
    /\ doc' = with_page_break(doc, first)
    /\ first' = FALSE
    /\ i' = i + 1
    /\ response' = [status |-> 500, content |-> <<>>]
    /\ uploads' = unlink_all(uploads, Range(paths))
    /\ pc' = "done"
    /\ UNCHANGED <<endpoint, images, lang, paths, text_in, prev_line, ocr>>

\* POST /images-to-docx: the loop is over, doc.save and the 200 response
ImagesReturn ==
    /\ endpoint = "/images-to-docx" /\ pc = "run" /\ i = Len(paths)
    /\ response' = [status |-> 200, content |-> doc]
    /\ uploads' = unlink_all(uploads, Range(paths))
    /\ pc' = "done"
    /\ UNCHANGED <<endpoint, images, lang, paths, text_in, i, first, doc,
                   prev_line, ocr, engine_lang>>

\* POST /build-docx: build_docx_bytes_from_text of docx_text_service
BuildDocx ==
    /\ endpoint = "/build-docx" /\ pc = "run"
    /\ doc' = build_docx_bytes_from_text(text_in)
    /\ response' = [status |-> 200, content |-> doc']
    /\ pc' = "done"
    /\ UNCHANGED <<endpoint, images, lang, paths, uploads, text_in, i, first,
                   prev_line, ocr, engine_lang>>

Next ==
    \/ SaveUpload
    \/ SaveUploadFault
    \/ OcrEndpoint
    \/ OcrEndpointFault
    \/ ImageToDocx
    \/ ImageToDocxFault
    \/ ImagesPage
    \/ ImagesPageFault
    \/ ImagesReturn
    \/ BuildDocx

Spec == Init /\ [][Next]_vars

----------------------------------------------------------------------------
(* Reading the document and the OCR input back, for the properties below *)

ListStyles == {"List Bullet", "List Number"}

HeadingStyles == {"Heading 2", "Heading 3"}

ImageEndpoints == {"/image-to-docx", "/images-to-docx"}

\* the page segment of item j: one more than the page breaks up to j
PageOf(d, j) == 1 + Cardinality({k \in 1..j : d[k].brk})

Breaks(d) == Cardinality({k \in 1..Len(d) : d[k].brk})

\* the positions of the paragraphs of page segment k (the break excluded)
SegmentIdx(d, k) == {j \in 1..Len(d) : ~d[j].brk /\ PageOf(d, j) = k}

Segment(d, k) ==
    IF SegmentIdx(d, k) = {} THEN <<>>
    ELSE SubSeq(d, SetMin(SegmentIdx(d, k)), SetMax(SegmentIdx(d, k)))

\* the positions of the paragraphs built for a line of an image
LineParas(d) == {j \in 1..Len(d) : ~d[j].brk /\ d[j].line # None}

\* j has a previous line on its page: the paragraph right before it
HasPrevious(d, j) == j > 1 /\ (j - 1) \in LineParas(d)

GapBefore(d, j) == d[j].line.top - (d[j - 1].line.top + d[j - 1].line.height)

ExceedsThreshold(d, j) == 5 * GapBefore(d, j) > 4 * d[j].line.median_height

\* the word records of a page that the OCR engine recognized
RecognizedIdx(data) ==
    {n \in 1..Len(data) : Strip(data[n].text) # <<>> /\ data[n].conf >= 0}

PageKeys(data) == {data[n].key : n \in RecognizedIdx(data)}

KeyIdx(data, key) == {n \in RecognizedIdx(data) : data[n].key = key}

----------------------------------------------------------------------------
(* C1 *)

\* C1: on every page of an image document, a line with a smaller top is
\* emitted before a line with a larger top, and of two lines with the same
\* top the one with the smaller left is emitted first; every line of the
\* page has exactly one paragraph.
C1_EmissionOrder ==
    endpoint \in ImageEndpoints =>
      /\ \A a, b \in LineParas(doc) :
           PageOf(doc, a) = PageOf(doc, b) =>
             /\ doc[a].line.top < doc[b].line.top => a < b
             /\ (doc[a].line.top = doc[b].line.top
                 /\ doc[a].line.left < doc[b].line.left) => a < b
      /\ \A k \in 1..Len(ocr) :
           Cardinality(PageKeys(ocr[k])) > 0 =>
             Cardinality(SegmentIdx(doc, k)) = Cardinality(PageKeys(ocr[k]))

\* two lines with equal tops whose records arrived right-to-left, and a
\* document that holds them left-to-right
C1_Witness ==
    /\ endpoint = "/image-to-docx" /\ pc = "done" /\ Len(doc) = 2
    /\ Len(ocr[1]) = 2
    /\ ocr[1][1].key # ocr[1][2].key
    /\ ocr[1][1].top = ocr[1][2].top
    /\ ocr[1][1].left > ocr[1][2].left
    /\ doc[1].line.left < doc[2].line.left
    /\ doc[1].line.top = doc[2].line.top

----------------------------------------------------------------------------
(* C2 *)

\* what page segment k must hold for the OCR result data
SegmentMatches(d, k, data) ==
    IF RecognizedIdx(data) = {}
    THEN Segment(d, k) = <<EmptyPageParagraph(k)>>
    ELSE /\ Len(Segment(d, k)) = Cardinality(PageKeys(data))
         /\ \A j \in 1..Len(Segment(d, k)) :
              \E key \in PageKeys(data) :
                /\ Segment(d, k)[j].line.left
                     = SetMin({data[n].left : n \in KeyIdx(data, key)})
                /\ Segment(d, k)[j].line.top
                     = SetMin({data[n].top : n \in KeyIdx(data, key)})

\* C2: while build_docx_bytes_from_images runs, the document holds one page
\* break fewer than the pages started; the document it returns for N pages
\* holds N - 1 breaks, never starts with a break, and its k-th segment is
\* the content of the k-th input page.
C2_PageBreaks ==
    endpoint = "/images-to-docx" =>
      /\ Breaks(doc) = (IF i = 0 THEN 0 ELSE i - 1)
      /\ doc # <<>> => ~doc[1].brk
      /\ response.status = 200 =>
           /\ Breaks(response.content) = Len(paths) - 1
           /\ Len(ocr) = Len(paths)
           /\ \A k \in 1..Len(paths) :
                SegmentMatches(response.content, k, ocr[k])

\* a returned three-page document whose middle page has no recognized word
C2_Witness ==
    /\ endpoint = "/images-to-docx" /\ response.status = 200
    /\ Len(paths) = 3
    /\ RecognizedIdx(ocr[1]) # {}
    /\ RecognizedIdx(ocr[2]) = {}
    /\ RecognizedIdx(ocr[3]) # {}
    /\ Breaks(response.content) = 2

----------------------------------------------------------------------------
(* C3 *)

\* C3: when /images-to-docx is done, the response is a document that holds
\* the paragraphs of every page whose image was opened and OCR'd, whether
\* or not another page of the run failed.
C3_FailureIsLocal ==
    (endpoint = "/images-to-docx" /\ pc = "done") =>
      \A k \in 1..Len(ocr) :
        /\ response.status = 200
        /\ SegmentMatches(response.content, k, ocr[k])

----------------------------------------------------------------------------
(* C4 *)

\* the heights of the lines of a one-page document are four 10s and a 100
MedianScenario(d) ==
    /\ Len(d) = 5 /\ LineParas(d) = 1..5
    /\ Cardinality({j \in 1..5 : d[j].line.height = 10}) = 4
    /\ Cardinality({j \in 1..5 : d[j].line.height = 100}) = 1

----------------------------------------------------------------------------
(* C5 *)

\* C5: an OCR result without a recognized word gives /image-to-docx a
\* document of exactly the placeholder paragraph, and gives its page of an
\* /images-to-docx run exactly the page's placeholder paragraph.
C5_EmptyPagePlaceholder ==
    /\ (endpoint = "/image-to-docx" /\ Len(ocr) = 1 /\ RecognizedIdx(ocr[1]) = {}) =>
         /\ response.status = 200
         /\ response.content = <<EmptyResultParagraph>>
    /\ endpoint = "/images-to-docx" =>
         \A k \in 1..Len(ocr) :
           RecognizedIdx(ocr[k]) = {} =>
             /\ Cardinality(SegmentIdx(doc, k)) = 1
             /\ Segment(doc, k) = <<EmptyPageParagraph(k)>>

\* a run whose second page is empty and whose third page has a line
C5_Witness ==
    /\ endpoint = "/images-to-docx" /\ Len(ocr) = 3
    /\ RecognizedIdx(ocr[2]) = {}
    /\ RecognizedIdx(ocr[3]) # {}
    /\ Segment(doc, 2) = <<EmptyPageParagraph(2)>>

----------------------------------------------------------------------------
(* C6 *)

\* C6: a paragraph whose line matches the list heuristic has a list style
\* and no heading style, whether or not the line also matches the heading
\* heuristic, in the image emitter and in the text builder.
C6_ListBeforeHeading ==
    /\ endpoint \in ImageEndpoints =>
         \A j \in LineParas(doc) :
           _is_bullet_or_numbered(doc[j].line.text)[1] =>
             /\ doc[j].style \in ListStyles
             /\ doc[j].style \notin HeadingStyles
    /\ endpoint = "/build-docx" =>
         \A j \in LineParas(doc) :
           (text_is_numbered(doc[j].line.text) \/ text_is_bullet(doc[j].line.text)) =>
             /\ doc[j].style \in ListStyles
             /\ doc[j].style \notin HeadingStyles

\* a numbered line twice the median height: both heuristics match
C6_Witness ==
    /\ endpoint = "/image-to-docx" /\ pc = "done"
    /\ \E j \in LineParas(doc) :
         /\ _is_heading_text(doc[j].line.text, doc[j].line.height_ratio)
         /\ 2 * doc[j].line.height_ratio[1] >= 3 * doc[j].line.height_ratio[2]
         /\ _is_bullet_or_numbered(doc[j].line.text) = <<TRUE, "number">>
         /\ doc[j].style = "List Number"

----------------------------------------------------------------------------
(* C7 *)

StartsWithBullet(t) ==
    t # <<>> /\ t[1] \in {"BULLET", "-", "MIDDOT", "*", "CIRCLE", "SQUARE", "ARROW"}

\* one or two digits followed immediately by ".", ")" or a space
StartsWithNumber(t) ==
    \E n \in {1, 2} :
      /\ Len(t) >= n + 1
      /\ \A k \in 1..n : t[k] \in DigitChars
      /\ t[n + 1] \in {".", ")", " "}

T_BuyMilk == T_Buy \o <<" ">> \o T_milk

\* C7: a line that starts with a bullet glyph is a bullet item, any other
\* line that starts with one or two digits and a terminator is a numbered
\* item, every other line is no list item; "1) Buy milk" is numbered,
\* "BULLET Buy milk" and "- Buy milk" are bullets.
C7_ListClassification ==
    endpoint \in ImageEndpoints =>
      \A j \in LineParas(doc) :
        /\ StartsWithBullet(doc[j].line.text) => doc[j].style = "List Bullet"
        /\ (~StartsWithBullet(doc[j].line.text)
            /\ StartsWithNumber(doc[j].line.text)) => doc[j].style = "List Number"
        /\ (~StartsWithBullet(doc[j].line.text)
            /\ ~StartsWithNumber(doc[j].line.text)) => doc[j].style \notin ListStyles
        /\ doc[j].line.text = <<"1", ")", " ">> \o T_BuyMilk
             => doc[j].style = "List Number"
        /\ doc[j].line.text \in {<<"BULLET", " ">> \o T_BuyMilk,
                                 <<"-", " ">> \o T_BuyMilk}
             => doc[j].style = "List Bullet"

\* the words "1)", "milk", "Buy" assembled and emitted as a numbered item
C7_Witness ==
    /\ endpoint = "/image-to-docx" /\ pc = "done" /\ Len(doc) = 1
    /\ doc[1].line.text = <<"1", ")", " ">> \o T_BuyMilk
    /\ doc[1].style = "List Number"

----------------------------------------------------------------------------
(* C8 *)

\* C8: a line with a previous line on its page gets a space-before exactly
\* when its gap exceeds 0.8 x median height; every space-before lies in
\* 3..12 pt (15..60 fifths); of two such lines the one with the smaller
\* gap never gets the larger space-before.  A line without a previous line
\* gets none.
C8_SpaceBeforeMonotone ==
    endpoint \in ImageEndpoints =>
      /\ \A j \in LineParas(doc) :
           IF HasPrevious(doc, j) /\ ExceedsThreshold(doc, j)
           THEN doc[j].space_before \in (3 * 5)..(12 * 5)
           ELSE doc[j].space_before = Unset
      /\ \A a, b \in LineParas(doc) :
           ( /\ HasPrevious(doc, a) /\ ExceedsThreshold(doc, a)
             /\ HasPrevious(doc, b) /\ ExceedsThreshold(doc, b)
             /\ GapBefore(doc, a) < GapBefore(doc, b) )
           => doc[a].space_before <= doc[b].space_before

\* gaps of 20 and 50 pixels on one page: 4 pt and 10 pt
C8_Witness ==
    /\ endpoint = "/image-to-docx" /\ pc = "done" /\ Len(doc) = 3
    /\ LineParas(doc) = {1, 2, 3}
    /\ GapBefore(doc, 2) = 20 /\ ExceedsThreshold(doc, 2)
    /\ GapBefore(doc, 3) = 50 /\ ExceedsThreshold(doc, 3)
    /\ doc[2].space_before = 20
    /\ doc[3].space_before = 50

----------------------------------------------------------------------------
(* C9 *)

\* the orders of the word records idx of data that ascend in left
AscendingOrders(data, idx) ==
    {f \in [1..Cardinality(idx) -> idx] :
        /\ \A a, b \in 1..Cardinality(idx) : a # b => f[a] # f[b]
        /\ \A a \in 1..(Cardinality(idx) - 1) :
             data[f[a]].left <= data[f[a + 1]].left}

ExpectedSeparator(gap, height) ==
    IF 5 * gap > 6 * height THEN <<" ", " ">> ELSE <<" ">>

\* the words in the order f, one separator before each word but the first
ExpectedText(data, f, n, height) ==
    Join([k \in 1..n |->
            IF k = 1 THEN Strip(data[f[k]].text)
            ELSE ExpectedSeparator(
                   data[f[k]].left - (data[f[k - 1]].left + data[f[k - 1]].width),
                   height)
                 \o Strip(data[f[k]].text)])

\* C9: the text of every line is its words in an ascending order of left,
\* with one separator between consecutive words and none before the first:
\* two spaces when the gap exceeds 1.2 x the line's height, else one;
\* "Hello" (0, 50) and "World" (200, 50) of height 20 give "Hello  World".
C9_LineTextAssembly ==
    endpoint \in ImageEndpoints =>
      \A k \in 1..Len(ocr) :
        \A key \in PageKeys(ocr[k]) :
          \E j \in SegmentIdx(doc, k) :
            \E f \in AscendingOrders(ocr[k], KeyIdx(ocr[k], key)) :
              doc[j].line.text
                = ExpectedText(ocr[k], f, Cardinality(KeyIdx(ocr[k], key)),
                               SetMax({ocr[k][n].height : n \in KeyIdx(ocr[k], key)}))

\* "World" recorded before "Hello", assembled with the double space
C9_Witness ==
    /\ endpoint = "/image-to-docx" /\ pc = "done" /\ Len(doc) = 1
    /\ Len(ocr[1]) = 2
    /\ ocr[1][1] = WordRecord(T_World, 90, 200, 0, 50, 20, 1)
    /\ ocr[1][2] = WordRecord(T_Hello, 90, 0, 0, 50, 20, 1)
    /\ doc[1].line.text = T_Hello \o <<" ", " ">> \o T_World

----------------------------------------------------------------------------
(* C10 *)

\* the page's own minimum left and median height, from its paragraphs
OwnMinLeft(d, k) == SetMin({d[j].line.left : j \in SegmentIdx(d, k)})

OwnHeightsBelow(d, k, h) ==
    Cardinality({j \in SegmentIdx(d, k) : d[j].line.height < h})

OwnHeightsUpTo(d, k, h) ==
    Cardinality({j \in SegmentIdx(d, k) : d[j].line.height <= h})

\* h is the element at 0-based rank n \div 2 of the page's sorted heights
IsOwnMedian(d, k, h) ==
    /\ OwnHeightsBelow(d, k, h) <= Cardinality(SegmentIdx(d, k)) \div 2
    /\ OwnHeightsUpTo(d, k, h) > Cardinality(SegmentIdx(d, k)) \div 2

\* C10: in a multi-page run the first paragraph of every page has no
\* space-before, and every line's indent and median height are those of its
\* own page: indent from the page's minimum left, median from the page's
\* line heights.
C10_PageLocalState ==
    endpoint = "/images-to-docx" =>
      \A j \in LineParas(doc) :
        /\ (j = 1 \/ doc[j - 1].brk) => doc[j].space_before = Unset
        /\ IsOwnMedian(doc, PageOf(doc, j), doc[j].line.median_height)
        /\ doc[j].style \notin ListStyles =>
             doc[j].left_indent =
               (IF doc[j].line.left > OwnMinLeft(doc, PageOf(doc, j))
                THEN Min(300, doc[j].line.left - OwnMinLeft(doc, PageOf(doc, j)))
                ELSE Unset)

\* page 2 starts 90 pixels below the bottom of page 1's last line, at a
\* larger left than page 1's minimum, and gets neither space nor indent
C10_Witness ==
    /\ endpoint = "/images-to-docx" /\ Len(ocr) >= 2 /\ Len(doc) >= 3
    /\ 1 \in LineParas(doc) /\ doc[2].brk /\ 3 \in LineParas(doc)
    /\ doc[3].line.top - (doc[1].line.top + doc[1].line.height) = 90
    /\ doc[3].line.left > doc[1].line.left
    /\ doc[3].line.median_height # doc[1].line.median_height
    /\ doc[3].space_before = Unset
    /\ doc[3].left_indent = Unset

----------------------------------------------------------------------------
(* C11 *)

\* indent_px = max(0, left - min_left) of paragraph j, in pixels
IndentPixels(d, j) == Max(0, d[j].line.left - OwnMinLeft(d, PageOf(d, j)))

\* C11: for every emitted line the applied left indent is min(1.5 inch,
\* indentPixels / 200 inch) with indentPixels = max(0, left - page minimum
\* left); a list item carries no paragraph-level left indent, a line at the
\* page's minimum left carries none, and no applied indent exceeds 1.5 inch.
C11_Indentation ==
    endpoint \in ImageEndpoints =>
      \A j \in LineParas(doc) :
        /\ doc[j].style \in ListStyles => doc[j].left_indent = Unset
        /\ doc[j].line.left = OwnMinLeft(doc, PageOf(doc, j))
             => doc[j].left_indent = Unset
        /\ (doc[j].style \notin ListStyles /\ IndentPixels(doc, j) > 0)
             => /\ doc[j].left_indent # Unset
                /\ 200 * doc[j].left_indent
                     = Min(200 * MaxIndent, 200 * IndentPixels(doc, j))
        /\ doc[j].left_indent <= MaxIndent

\* a page whose first line sits at the minimum left, whose second line is a
\* list item 40 pixels to the right and whose third line is 301 pixels to
\* the right: no indent, no indent, the 1.5 inch cap
C11_Witness ==
    /\ endpoint = "/image-to-docx" /\ pc = "done" /\ Len(doc) = 3
    /\ LineParas(doc) = {1, 2, 3}
    /\ IndentPixels(doc, 1) = 0 /\ doc[1].left_indent = Unset
    /\ doc[2].style \in ListStyles /\ IndentPixels(doc, 2) = 40
    /\ doc[2].left_indent = Unset
    /\ doc[3].style \notin ListStyles /\ IndentPixels(doc, 3) = 301
    /\ doc[3].left_indent = MaxIndent

----------------------------------------------------------------------------
(* C12 *)

\* raw = clamp(height * 72 / 300, 9, 28) in hundredths of a point:
\* 72 / 300 of a point is 24 hundredths
RawSize(height) ==
    IF 24 * height < 900 THEN 900
    ELSE IF 24 * height > 2800 THEN 2800 ELSE 24 * height

Clamp(x, lo, hi) == IF x < lo THEN lo ELSE IF x > hi THEN hi ELSE x

\* C12: the run of a heading line has size clamp(raw + 2, 12, 18) pt and the
\* run of any other line clamp(raw, 10, 14) pt, raw being the line's pixel
\* height converted at 300 dpi and clamped to 9..28 pt; so a heading size lies
\* in 12..18 pt, a body size in 10..14 pt, both never decrease when the
\* height grows, and at equal height a heading is never smaller than a body
\* line.
C12_FontSizing ==
    endpoint \in ImageEndpoints =>
      /\ \A j \in LineParas(doc) :
           /\ doc[j].bold
                => /\ doc[j].size = Clamp(RawSize(doc[j].line.height) + 200,
                                          1200, 1800)
                   /\ doc[j].size >= 1200 /\ doc[j].size <= 1800
           /\ ~doc[j].bold
                => /\ doc[j].size = Clamp(RawSize(doc[j].line.height),
                                          1000, 1400)
                   /\ doc[j].size >= 1000 /\ doc[j].size <= 1400
      /\ \A a, b \in LineParas(doc) :
           /\ (doc[a].bold = doc[b].bold
               /\ doc[a].line.height <= doc[b].line.height)
                => doc[a].size <= doc[b].size
           /\ (doc[a].bold /\ ~doc[b].bold
               /\ doc[a].line.height = doc[b].line.height)
                => doc[a].size >= doc[b].size

\* a body line of 50 pixels (12 pt) above a heading of 60 pixels
\* (14.4 + 2 = 16.4 pt): both sizes strictly inside their ranges
C12_Witness ==
    /\ endpoint = "/image-to-docx" /\ pc = "done" /\ Len(doc) = 2
    /\ LineParas(doc) = {1, 2}
    /\ ~doc[1].bold /\ doc[1].line.height = 50 /\ doc[1].size = 1200
    /\ doc[2].bold /\ doc[2].line.height = 60 /\ doc[2].size = 1640

----------------------------------------------------------------------------
(* C13 *)

\* the size of a body run: clamp(raw, 10, 14) pt for a line of an image,
\* 12 pt for a line of the text of /build-docx
BodySize(para) ==
    IF endpoint = "/build-docx" THEN 1200
    ELSE Clamp(RawSize(para.line.height), 1000, 1400)

\* C13: a paragraph with a list style (List Bullet, List Number) has a run
\* that is not bold and has the body size, in the documents of the image
\* endpoints and of /build-docx alike.
C13_ListRunIsBody ==
    \A j \in 1..Len(doc) :
      (~doc[j].brk /\ doc[j].style \in ListStyles)
        => (~doc[j].bold /\ doc[j].size = BodySize(doc[j]))

----------------------------------------------------------------------------
(* C14 *)

\* C14: once a request of /ocr, /image-to-docx or /images-to-docx has
\* finished, with success or after a failure at any step, no file that the
\* request created is left in the uploads directory, and the request has
\* been answered with 200 or with the 500 response of the except clause.
C14_UploadsDeleted ==
    (endpoint \in UploadEndpoints /\ pc = "done")
      => (uploads = {} /\ response.status \in {200, 500})

----------------------------------------------------------------------------
(* C15 *)

\* C15: the OCR engine is never called with the literal lang "auto", and
\* when the request's lang is "auto" or empty every call of the engine gets
\* the combined language set eng+rus+uzb+uzb_cyrl; on /ocr and on the two
\* image-to-document endpoints alike.
C15_AutoResolved ==
    endpoint \in UploadEndpoints =>
      \A k \in 1..Len(engine_lang) :
        /\ engine_lang[k] # "auto"
        /\ lang \in {"auto", ""} => engine_lang[k] = AUTO_LANGS

============================================================================
